---------------------------- MODULE Spec2Model ----------------------------
(***************************************************************************)
(* UUIDv7 value-composition engine (src/uuid7.py).                         *)
(*                                                                         *)
(* The field widths of the identifier are scaled down so that every value  *)
(* fits TLC's 32-bit integers: the arithmetic of the source is kept        *)
(* (shifts, masks, bitwise or on two's-complement integers), only the      *)
(* number of bits of each field is smaller.  The source's widths are given *)
(* next to each definition.                                                *)
(***************************************************************************)
EXTENDS Integers, Sequences, FiniteSets, TLC

(* ------------------------------ widths -------------------------------- *)
TsBits == 2             \* unix_ts_ms, 48 bits in the source
RandABits == 1          \* rand_a, 12 bits in the source (mask 0x0fff)
RandBBits == 1          \* rand_b, 62 bits in the source
MaxFractionBits == 1    \* largest unix_ts_ms_fraction_num_bits, 12 in the source
RecMinBits == 1         \* recommended counter width, lower end (12 in the source)
RecMaxBits == 1         \* recommended counter width, upper end (42 in the source)
VersionBits == 4
VariantBits == 2
NS_IN_MS == 1000000

PayloadBits == RandABits + RandBBits                            \* 74
UuidBits == TsBits + VersionBits + RandABits + VariantBits + RandBBits  \* 128

(* ------------------------------ bounds -------------------------------- *)
MaxClock == 2           \* time_ns() takes the values 0..MaxClock, in TickNs
MaxDebt == 1            \* a stored counter is never below -MaxDebt

(* ------------------------- optional values ---------------------------- *)
None == <<>>
Some(v) == <<v>>
IsNone(x) == x = <<>>
Val(x) == x[1]

(* --------------------- Python integer arithmetic ---------------------- *)
Pow2(n) == 2 ^ n
Shl(x, n) == x * Pow2(n)
FloorDiv(x, d) == IF x >= 0 THEN x \div d ELSE -(((-x) + d - 1) \div d)
Shr(x, n) == FloorDiv(x, Pow2(n))
Mod2(x, n) == x - Shl(Shr(x, n), n)

RECURSIVE BitOr(_, _)
BitOr(a, b) ==
    IF a = 0 THEN b
    ELSE IF b = 0 THEN a
    ELSE IF a = -1 \/ b = -1 THEN -1
    ELSE LET la == Mod2(a, 1)
             lb == Mod2(b, 1)
         IN  2 * BitOr(Shr(a, 1), Shr(b, 1)) + (IF la + lb > 0 THEN 1 ELSE 0)

_getrandbits(n) == 0 .. (Pow2(n) - 1)
_randrange(lo, hi) == lo .. (hi - 1)

(* ----------------------- results of the helpers ----------------------- *)
\* A helper returns the set of the results it can produce (one per value the
\* random source may draw): err = "" is a normal return.
Ret(c, r) == [err |-> "", counter |-> c, random |-> r]
Raise(e) == [err |-> e, counter |-> 0, random |-> 0]

(* --------------------------- counter helpers -------------------------- *)
\* mutant: the seed takes the whole width of the counter
_init_counter_NoGuard(counter_num_bits, counter_guard_seed_num_bits) ==
    IF counter_num_bits - counter_guard_seed_num_bits < 0
    THEN {Raise("ValueError")}
    ELSE {Ret(c, 0) : c \in _getrandbits(counter_num_bits)}

_init_counter(counter_num_bits, counter_guard_seed_num_bits) ==
    IF counter_num_bits - counter_guard_seed_num_bits < 0
    THEN {Raise("ValueError")}
    ELSE {Ret(c, 0) :
            c \in _getrandbits(counter_num_bits - counter_guard_seed_num_bits)}

_increment_counter(counter_num_bits, counter_guard_seed_num_bits, counter_step, last_counter) ==
    IF IsNone(last_counter)
    THEN _init_counter(counter_num_bits, counter_guard_seed_num_bits)
    ELSE LET counter == Val(last_counter) + counter_step
         IN  IF counter_num_bits < 0 THEN {Raise("ValueError")}
             ELSE IF counter < Pow2(counter_num_bits)
             THEN {Ret(counter, 0)}
             ELSE {Raise("CounterOverflow")}

\* mutant: the pinned random is not used
Method1Random_Fresh(c, random, random_num_bits) ==
    IF c.err # "" THEN {c}
    ELSE IF random_num_bits < 0 THEN {Raise("ValueError")}
    ELSE {Ret(c.counter, r) : r \in _getrandbits(random_num_bits)}

\* the random field of Method 1: the pinned value, else fresh random bits
Method1Random(c, random, random_num_bits) ==
    IF c.err # "" THEN {c}
    ELSE IF ~IsNone(random) THEN {Ret(c.counter, Val(random))}
    ELSE IF random_num_bits < 0 THEN {Raise("ValueError")}
    ELSE {Ret(c.counter, r) : r \in _getrandbits(random_num_bits)}

\* mutant: a pinned counter is not compared with the last one
_counter_method1_NoCheck(counter_num_bits, counter, counter_guard_seed_num_bits, counter_step, random, random_num_bits, last_counter) ==
    LET cs == IF IsNone(counter)
              THEN _increment_counter(counter_num_bits,
                                      counter_guard_seed_num_bits,
                                      counter_step, last_counter)
              ELSE {Ret(Val(counter), 0)}
    IN  UNION {Method1Random(c, random, random_num_bits) : c \in cs}

\* mutant: a pinned counter equal to the last one is accepted
_counter_method1_AllowEqual(counter_num_bits, counter, counter_guard_seed_num_bits, counter_step, random, random_num_bits, last_counter) ==
    LET cs == IF IsNone(counter)
              THEN _increment_counter(counter_num_bits,
                                      counter_guard_seed_num_bits,
                                      counter_step, last_counter)
              ELSE IF ~IsNone(last_counter)
                      /\ ~(Val(last_counter) <= Val(counter))
              THEN {Raise("MonotonicityViolation")}
              ELSE {Ret(Val(counter), 0)}
    IN  UNION {Method1Random(c, random, random_num_bits) : c \in cs}

\* mutant: a pinned counter must exceed the last one by more than one
_counter_method1_OffByOne(counter_num_bits, counter, counter_guard_seed_num_bits, counter_step, random, random_num_bits, last_counter) ==
    LET cs == IF IsNone(counter)
              THEN _increment_counter(counter_num_bits,
                                      counter_guard_seed_num_bits,
                                      counter_step, last_counter)
              ELSE IF ~IsNone(last_counter)
                      /\ ~(Val(last_counter) + 1 < Val(counter))
              THEN {Raise("MonotonicityViolation")}
              ELSE {Ret(Val(counter), 0)}
    IN  UNION {Method1Random(c, random, random_num_bits) : c \in cs}

_counter_method1(counter_num_bits, counter, counter_guard_seed_num_bits, counter_step, random, random_num_bits, last_counter) ==
    LET cs == IF IsNone(counter)
              THEN _increment_counter(counter_num_bits,
                                      counter_guard_seed_num_bits,
                                      counter_step, last_counter)
              ELSE IF ~IsNone(last_counter)
                      /\ ~(Val(last_counter) < Val(counter))
              THEN {Raise("MonotonicityViolation")}
              ELSE {Ret(Val(counter), 0)}
    IN  UNION {Method1Random(c, random, random_num_bits) : c \in cs}

\* Method 2, random pinned (lines 252-266)
Method2Pinned(counter, random, last_counter, last_random) ==
    IF IsNone(last_random) THEN {Ret(0, Val(random))}
    ELSE IF IsNone(counter)
    THEN IF Val(last_random) < Val(random)
         THEN {Ret(Val(last_counter), Val(random))}
         ELSE {Raise("MonotonicityViolation")}
    ELSE IF Val(last_counter) # Val(counter)
    THEN IF Val(last_counter) < Val(counter)
         THEN {Ret(Val(counter), Val(random))}
         ELSE {Raise("MonotonicityViolation")}
    ELSE IF Val(last_random) < Val(random)
         THEN {Ret(Val(counter), Val(random))}
         ELSE {Raise("MonotonicityViolation")}

\* Method 2, counter pinned and random not pinned (lines 269-283)
Method2Counter(counter, random_num_bits, last_counter, last_random) ==
    IF random_num_bits < 0 THEN {Raise("ValueError")}
    ELSE IF IsNone(last_counter)
    THEN {Ret(Val(counter), r) : r \in _getrandbits(random_num_bits)}
    ELSE IF ~(Val(last_counter) <= Val(counter))
    THEN {Raise("MonotonicityViolation")}
    ELSE IF Val(last_counter) < Val(counter)
    THEN {Ret(Val(counter), r) : r \in _getrandbits(random_num_bits)}
    ELSE {Ret(Val(counter), r) :
            r \in _randrange(Val(last_random), Pow2(random_num_bits))}

\* mutant: the random that overflows is not truncated on rollover
Method2Next_NoTruncate(counter_num_bits, counter_guard_seed_num_bits, counter_step, random_num_bits, last_counter, last_random, fresh) ==
    IF IsNone(last_random) THEN {Ret(0, fresh)}
    ELSE LET random == Val(last_random) + 1 + fresh
         IN  IF random < Pow2(random_num_bits)
             THEN {Ret(Val(last_counter), random)}
             ELSE IF counter_num_bits = 0
             THEN {Raise("MissingCounterGuard")}
             ELSE {IF c.err # "" THEN c
                   ELSE Ret(c.counter, random) :
                     c \in _increment_counter(counter_num_bits,
                                              counter_guard_seed_num_bits,
                                              counter_step, last_counter)}

\* mutant: the rollover does not require a counter
Method2Next_NoGuard(counter_num_bits, counter_guard_seed_num_bits, counter_step, random_num_bits, last_counter, last_random, fresh) ==
    IF IsNone(last_random) THEN {Ret(0, fresh)}
    ELSE LET random == Val(last_random) + 1 + fresh
         IN  IF random < Pow2(random_num_bits)
             THEN {Ret(Val(last_counter), random)}
             ELSE {IF c.err # "" THEN c
                   ELSE Ret(c.counter, Mod2(random, random_num_bits)) :
                     c \in _increment_counter(counter_num_bits,
                                              counter_guard_seed_num_bits,
                                              counter_step, last_counter)}

\* mutant: the random is advanced by the fresh bits alone, without the + 1
Method2Next_NoPlusOne(counter_num_bits, counter_guard_seed_num_bits, counter_step, random_num_bits, last_counter, last_random, fresh) ==
    IF IsNone(last_random) THEN {Ret(0, fresh)}
    ELSE LET random == Val(last_random) + fresh
         IN  IF random < Pow2(random_num_bits)
             THEN {Ret(Val(last_counter), random)}
             ELSE IF counter_num_bits = 0
             THEN {Raise("MissingCounterGuard")}
             ELSE {IF c.err # "" THEN c
                   ELSE Ret(c.counter, Mod2(random, random_num_bits)) :
                     c \in _increment_counter(counter_num_bits,
                                              counter_guard_seed_num_bits,
                                              counter_step, last_counter)}

\* Method 2, nothing pinned (lines 285-306); fresh is the value drawn
Method2Next(counter_num_bits, counter_guard_seed_num_bits, counter_step, random_num_bits, last_counter, last_random, fresh) ==
    IF IsNone(last_random) THEN {Ret(0, fresh)}
    ELSE LET random == Val(last_random) + 1 + fresh
         IN  IF random < Pow2(random_num_bits)
             THEN {Ret(Val(last_counter), random)}
             ELSE IF counter_num_bits = 0
             THEN {Raise("MissingCounterGuard")}
             ELSE {IF c.err # "" THEN c
                   ELSE Ret(c.counter, Mod2(random, random_num_bits)) :
                     c \in _increment_counter(counter_num_bits,
                                              counter_guard_seed_num_bits,
                                              counter_step, last_counter)}

_counter_method2(counter_num_bits, counter, counter_guard_seed_num_bits, counter_step, random, random_num_bits, last_counter, last_random) ==
    IF ~IsNone(random)
    THEN Method2Pinned(counter, random, last_counter, last_random)
    ELSE IF ~IsNone(counter)
    THEN Method2Counter(counter, random_num_bits, last_counter, last_random)
    ELSE IF random_num_bits < 0 THEN {Raise("ValueError")}
    ELSE UNION {Method2Next(counter_num_bits, counter_guard_seed_num_bits,
                            counter_step, random_num_bits, last_counter,
                            last_random, fresh) :
                  fresh \in _getrandbits(random_num_bits)}

(* ------------------------------ dicts --------------------------------- *)
EmptyDict == [k \in {} |-> 0]
DictGet(d, k, default) == IF k \in DOMAIN d THEN d[k] ELSE default
DictSet(d, k, v) == [x \in (DOMAIN d) \cup {k} |-> IF x = k THEN v ELSE d[x]]

(* ------------------------- identifier layout -------------------------- *)
_construct_uuid7_int(unix_ts_ms, rand_a, rand_b) ==
    BitOr(BitOr(BitOr(BitOr(
        Shl(unix_ts_ms, VersionBits + RandABits + VariantBits + RandBBits),
        Shl(7, RandABits + VariantBits + RandBBits)),
        Shl(rand_a, VariantBits + RandBBits)),
        Shl(2, RandBBits)),
        rand_b)

\* mutant: the timestamp is shifted as if it had no fraction bits
_compose_data_NoFraction(unix_ts_ms_with_fraction, unix_ts_ms_fraction_num_bits, counter, random_num_bits, random) ==
    LET data == BitOr(BitOr(
                    Shl(unix_ts_ms_with_fraction, PayloadBits),
                    Shl(counter, random_num_bits)),
                    random)
        unix_ts_ms == Shr(data, PayloadBits)
        rand_a == Mod2(Shr(data, RandBBits), RandABits)
        rand_b == Mod2(data, RandBBits)
    IN  _construct_uuid7_int(unix_ts_ms, rand_a, rand_b)

_compose_data(unix_ts_ms_with_fraction, unix_ts_ms_fraction_num_bits, counter, random_num_bits, random) ==
    LET data == BitOr(BitOr(
                    Shl(unix_ts_ms_with_fraction,
                        PayloadBits - unix_ts_ms_fraction_num_bits),
                    Shl(counter, random_num_bits)),
                    random)
        unix_ts_ms == Shr(data, PayloadBits)
        rand_a == Mod2(Shr(data, RandBBits), RandABits)
        rand_b == Mod2(data, RandBBits)
    IN  _construct_uuid7_int(unix_ts_ms, rand_a, rand_b)

\* the accessors of the identifier (lines 460-474)
unix_ts_ms(int) == Shr(int, VersionBits + RandABits + VariantBits + RandBBits)
rand_a(int) == Mod2(Shr(int, VariantBits + RandBBits), RandABits)
\* mutant: the mask of rand_b takes in the variant bits
rand_b_Wide(int) == Mod2(int, RandBBits + VariantBits)
rand_b(int) == Mod2(int, RandBBits)
fields(int) == <<unix_ts_ms(int), rand_a(int), rand_b(int)>>
version(int) == Mod2(Shr(int, RandABits + VariantBits + RandBBits), VersionBits)
variant(int) == Mod2(Shr(int, RandBBits), VariantBits)

\* the logical fields exposed by the constructor (lines 437-452)
Payload(int) ==
    BitOr(BitOr(Shl(unix_ts_ms(int), PayloadBits), Shl(rand_a(int), RandBBits)),
          rand_b(int))
ExposedCounter(int, random_num_bits, counter_num_bits) ==
    Mod2(Shr(Payload(int), random_num_bits), counter_num_bits)
ExposedRandom(int, random_num_bits) == Mod2(Payload(int), random_num_bits)

(* ----------------------------- timestamps ----------------------------- *)
\* A timestamp argument is None or Some([kind, v]); kind "int" is nanoseconds
\* since the epoch, every kind the source does not accept is "other".
IntNs(n) == Some([kind |-> "int", v |-> n])
OtherType == Some([kind |-> "other", v |-> 0])

_normalize_timestamp(timestamp, time_ns) ==
    LET t == IF IsNone(timestamp) THEN [kind |-> "int", v |-> time_ns]
             ELSE Val(timestamp)
        result == FloorDiv(Shl(t.v, MaxFractionBits), NS_IN_MS)
    IN  IF t.kind # "int" THEN [err |-> "InvalidTimestampType", value |-> 0]
        ELSE IF ~(0 <= result /\ result < Pow2(TsBits + MaxFractionBits))
        THEN [err |-> "AssertionError", value |-> 0]
        ELSE [err |-> "", value |-> result]

(* ------------------------------ validator ----------------------------- *)
\* The checks of _compose_uuid before any state is touched (lines 126-174), in
\* the order of the source; "" when the configuration is accepted.  A shift by
\* a negative width raises ValueError in the source.
\* line 126
CheckFraction(cfg) ==
    IF ~(0 <= cfg.fraction_bits /\ cfg.fraction_bits <= MaxFractionBits)
    THEN "ConfigError" ELSE ""

\* mutant: an explicit timestamp is accepted without a random
CheckWidths_NoTimestampRule(cfg) ==
    LET fb == cfg.fraction_bits
        cb == cfg.counter_bits
    IN  IF cfg.monotonic_random
        THEN IF ~IsNone(cfg.random) THEN ""
             ELSE IF ~(0 <= cb /\ cb <= PayloadBits - fb) THEN "ConfigError"
             ELSE ""
        ELSE IF cb = 0 THEN ""
        ELSE IF cfg.recommended
        THEN IF ~(RecMinBits <= cb /\ cb <= RecMaxBits) THEN "ConfigError"
             ELSE ""
        ELSE IF ~(0 < cb /\ cb <= PayloadBits - fb) THEN "ConfigError"
        ELSE ""

\* lines 130-148
CheckWidths(cfg) ==
    LET fb == cfg.fraction_bits
        cb == cfg.counter_bits
    IN  IF cfg.monotonic_random
        THEN IF ~IsNone(cfg.random) THEN ""
             ELSE IF ~(0 <= cb /\ cb <= PayloadBits - fb) THEN "ConfigError"
             ELSE IF ~IsNone(cfg.timestamp) THEN "ConfigError"
             ELSE ""
        ELSE IF cb = 0 THEN ""
        ELSE IF cfg.recommended
        THEN IF ~(RecMinBits <= cb /\ cb <= RecMaxBits) THEN "ConfigError"
             ELSE ""
        ELSE IF ~(0 < cb /\ cb <= PayloadBits - fb) THEN "ConfigError"
        ELSE ""

\* mutant: an unset counter is accepted with an explicit timestamp
CheckCounter_NoTimestampRule(cfg) ==
    LET cb == cfg.counter_bits
    IN  IF IsNone(cfg.counter)
        THEN IF ~(0 <= cfg.guard_bits /\ cfg.guard_bits <= cb)
             THEN "ConfigError"
             ELSE IF cb = 0 \/ ~IsNone(cfg.timestamp) THEN ""
             ELSE IF ~(0 < cfg.counter_step /\ cfg.counter_step < Pow2(cb))
             THEN "ConfigError"
             ELSE ""
        ELSE IF cb = 0 THEN "ConfigError"
        ELSE IF cb < 0 THEN "ValueError"
        ELSE IF ~(0 <= Val(cfg.counter) /\ Val(cfg.counter) < Pow2(cb))
        THEN "ConfigError"
        ELSE ""

\* lines 150-167
CheckCounter(cfg) ==
    LET cb == cfg.counter_bits
    IN  IF IsNone(cfg.counter)
        THEN IF ~(0 <= cfg.guard_bits /\ cfg.guard_bits <= cb)
             THEN "ConfigError"
             ELSE IF cb = 0 THEN ""
             ELSE IF ~IsNone(cfg.timestamp) THEN "ConfigError"
             ELSE IF ~(0 < cfg.counter_step /\ cfg.counter_step < Pow2(cb))
             THEN "ConfigError"
             ELSE ""
        ELSE IF cb = 0 THEN "ConfigError"
        ELSE IF cb < 0 THEN "ValueError"
        ELSE IF ~(0 <= Val(cfg.counter) /\ Val(cfg.counter) < Pow2(cb))
        THEN "ConfigError"
        ELSE ""

\* lines 169-174
CheckRandom(cfg) ==
    LET rb == PayloadBits - cfg.fraction_bits - cfg.counter_bits
    IN  IF IsNone(cfg.random) THEN ""
        ELSE IF rb < 0 THEN "ValueError"
        ELSE IF ~(0 <= Val(cfg.random) /\ Val(cfg.random) < Pow2(rb))
        THEN "ConfigError"
        ELSE ""

Validate(cfg) ==
    IF CheckFraction(cfg) # "" THEN CheckFraction(cfg)
    ELSE IF CheckWidths(cfg) # "" THEN CheckWidths(cfg)
    ELSE IF CheckCounter(cfg) # "" THEN CheckCounter(cfg)
    ELSE CheckRandom(cfg)

(* -------------------------------- store ------------------------------- *)
\* _counters: fraction width -> <<last timestamp, counter width -> <<counter,
\* random>>>>; an absent key is a key outside the DOMAIN.
StoreGet(store, fb) == DictGet(store, fb, <<0, EmptyDict>>)
StoreKeys(store) ==
    UNION {{<<fb, cb>> : cb \in DOMAIN store[fb][2]} : fb \in DOMAIN store}

Outcome(err, int, counter, random, store, tsf, seen) ==
    [err |-> err, int |-> int, counter |-> counter, random |-> random,
     store |-> store, tsf |-> tsf, seen |-> seen]

\* lines 85-90
StoreUpdate(store, fb, cb, tsf, counter, random) ==
    DictSet(store, fb, <<tsf, DictSet(StoreGet(store, fb)[2], cb,
                                      <<counter, random>>)>>)

\* mutant: the timestamp is not compared with the stored one
_calc_counter_and_random_NoClockCheck(store, cfg, unix_ts_ms_with_fraction, random_num_bits) ==
    LET fb == cfg.fraction_bits
        cb == cfg.counter_bits
        last_timestamp == StoreGet(store, fb)[1]
        counters == StoreGet(store, fb)[2]
        seen == IF last_timestamp < unix_ts_ms_with_fraction
                   \/ cb \notin DOMAIN counters
                THEN None ELSE Some(counters[cb])
        last_counter == IF IsNone(seen) THEN None ELSE Some(Val(seen)[1])
        last_random == IF IsNone(seen) THEN None ELSE Some(Val(seen)[2])
        rs == IF cfg.monotonic_random
              THEN _counter_method2(cb, cfg.counter, cfg.guard_bits,
                                    cfg.counter_step, cfg.random,
                                    random_num_bits, last_counter, last_random)
              ELSE _counter_method1(cb, cfg.counter, cfg.guard_bits,
                                    cfg.counter_step, cfg.random,
                                    random_num_bits, last_counter)
    IN  {IF r.err # ""
         THEN Outcome(r.err, 0, 0, 0, store, unix_ts_ms_with_fraction, seen)
         ELSE Outcome("", 0, r.counter, r.random,
                      StoreUpdate(store, fb, cb, unix_ts_ms_with_fraction,
                                  r.counter, r.random),
                      unix_ts_ms_with_fraction, seen) : r \in rs}

_calc_counter_and_random(store, cfg, unix_ts_ms_with_fraction, random_num_bits) ==
    LET fb == cfg.fraction_bits
        cb == cfg.counter_bits
        last_timestamp == StoreGet(store, fb)[1]
        counters == StoreGet(store, fb)[2]
        seen == IF last_timestamp < unix_ts_ms_with_fraction
                   \/ cb \notin DOMAIN counters
                THEN None ELSE Some(counters[cb])
        last_counter == IF IsNone(seen) THEN None ELSE Some(Val(seen)[1])
        last_random == IF IsNone(seen) THEN None ELSE Some(Val(seen)[2])
        rs == IF cfg.monotonic_random
              THEN _counter_method2(cb, cfg.counter, cfg.guard_bits,
                                    cfg.counter_step, cfg.random,
                                    random_num_bits, last_counter, last_random)
              ELSE _counter_method1(cb, cfg.counter, cfg.guard_bits,
                                    cfg.counter_step, cfg.random,
                                    random_num_bits, last_counter)
    IN  IF ~(last_timestamp <= unix_ts_ms_with_fraction)
        THEN {Outcome("MonotonicityViolation", 0, 0, 0, store,
                      unix_ts_ms_with_fraction, None)}
        ELSE {IF r.err # ""
              THEN Outcome(r.err, 0, 0, 0, store, unix_ts_ms_with_fraction,
                           seen)
              ELSE Outcome("", 0, r.counter, r.random,
                           StoreUpdate(store, fb, cb, unix_ts_ms_with_fraction,
                                       r.counter, r.random),
                           unix_ts_ms_with_fraction, seen) : r \in rs}

\* lines 196-206: an explicit timestamp, the store is not consulted
ExplicitValues(store, cfg, tsf, random_num_bits) ==
    LET cs == IF IsNone(cfg.counter)
              THEN _init_counter(cfg.counter_bits, cfg.guard_bits)
              ELSE {Ret(Val(cfg.counter), 0)}
    IN  {Outcome(r.err, 0, r.counter, r.random, store, tsf, None) :
           r \in UNION {Method1Random(c, cfg.random, random_num_bits) :
                          c \in cs}}

\* mutant: the store is used whether or not a timestamp is given
_compose_uuid_AlwaysStore(store, time_ns, cfg) ==
    LET fb == cfg.fraction_bits
        random_num_bits == PayloadBits - fb - cfg.counter_bits
        norm == _normalize_timestamp(cfg.timestamp, time_ns)
        tsf == Shr(norm.value, MaxFractionBits - fb)
        vs == _calc_counter_and_random(store, cfg, tsf, random_num_bits)
    IN  IF Validate(cfg) # ""
        THEN {Outcome(Validate(cfg), 0, 0, 0, store, 0, None)}
        ELSE IF norm.err # ""
        THEN {Outcome(norm.err, 0, 0, 0, store, 0, None)}
        ELSE {IF o.err # "" THEN o
              ELSE IF random_num_bits < 0
              THEN [o EXCEPT !.err = "ValueError"]
              ELSE [o EXCEPT !.int = _compose_data(tsf, fb, o.counter,
                                                   random_num_bits, o.random)] :
                o \in vs}

_compose_uuid(store, time_ns, cfg) ==
    LET fb == cfg.fraction_bits
        random_num_bits == PayloadBits - fb - cfg.counter_bits
        norm == _normalize_timestamp(cfg.timestamp, time_ns)
        tsf == Shr(norm.value, MaxFractionBits - fb)
        vs == IF IsNone(cfg.timestamp)
              THEN _calc_counter_and_random(store, cfg, tsf, random_num_bits)
              ELSE ExplicitValues(store, cfg, tsf, random_num_bits)
    IN  IF Validate(cfg) # ""
        THEN {Outcome(Validate(cfg), 0, 0, 0, store, 0, None)}
        ELSE IF norm.err # ""
        THEN {Outcome(norm.err, 0, 0, 0, store, 0, None)}
        ELSE {IF o.err # "" THEN o
              ELSE IF random_num_bits < 0
              THEN [o EXCEPT !.err = "ValueError"]
              ELSE [o EXCEPT !.int = _compose_data(tsf, fb, o.counter,
                                                   random_num_bits, o.random)] :
                o \in vs}

\* UUID.__init__ of the standard library and the rest of UUIDv7.__init__
\* (lines 432-458): the 128-bit range check, the version assertion
UuidInit(o) ==
    IF o.err # "" THEN o
    ELSE IF ~(0 <= o.int /\ o.int < Pow2(UuidBits))
    THEN [o EXCEPT !.err = "ValueError"]
    ELSE IF version(o.int) # 7 THEN [o EXCEPT !.err = "AssertionError"]
    ELSE o

\* uuid7(**cfg): the outcomes of one generation
Generate(store, time_ns, cfg) ==
    {UuidInit(o) : o \in _compose_uuid(store, time_ns, cfg)}

\* uuid7(fields=(unix_ts_ms, rand_a, rand_b)) (lines 409-422)
FromFields(f) ==
    IF ~(0 <= f[1] /\ f[1] < Pow2(TsBits)) THEN [err |-> "ValueError", int |-> 0]
    ELSE IF ~(0 <= f[2] /\ f[2] < Pow2(RandABits))
    THEN [err |-> "ValueError", int |-> 0]
    ELSE IF ~(0 <= f[3] /\ f[3] < Pow2(RandBBits))
    THEN [err |-> "ValueError", int |-> 0]
    ELSE [err |-> "", int |-> _construct_uuid7_int(f[1], f[2], f[3])]

(* ------------------------------- inputs ------------------------------- *)
TickNs == NS_IN_MS \div Pow2(MaxFractionBits)
TimestampInputs ==
    {None, IntNs(TickNs), IntNs(3 * TickNs), IntNs(Pow2(TsBits) * NS_IN_MS),
     OtherType}
FractionInputs == 0 .. (MaxFractionBits + 1)
CounterBitsInputs == (-1) .. (PayloadBits + 1)
ValueInputs == {None} \cup {Some(v) : v \in (-1) .. Pow2(PayloadBits)}
StepInputs == {-1, 0, 1, 2}
GuardInputs == {0, 1}
Max(a, b) == IF a >= b THEN a ELSE b

DefaultCfg ==
    [timestamp |-> None, fraction_bits |-> 0, counter |-> None,
     guard_bits |-> 0, counter_bits |-> 0, counter_step |-> 1,
     recommended |-> TRUE, monotonic_random |-> FALSE, random |-> None]

\* The arguments of a call.  An argument the source does not read before it
\* raises, or never reads for the other arguments given, is left at its
\* default (a pinned value, whose presence alone is read, at 0), and a pinned
\* value is at most one above the range of its field.
PresenceOnly(x) == x \in {None, Some(0)}
Canonical(c) ==
    LET rb == PayloadBits - c.fraction_bits - c.counter_bits
    IN  /\ CheckFraction(c) # "" =>
             c = [DefaultCfg EXCEPT !.fraction_bits = c.fraction_bits]
        /\ CheckFraction(c) = "" /\ CheckWidths(c) # "" =>
             /\ c.guard_bits = 0 /\ c.counter_step = 1
             /\ IsNone(c.counter) /\ PresenceOnly(c.random)
        /\ CheckFraction(c) = "" /\ CheckWidths(c) = "" /\ CheckCounter(c) # ""
             => PresenceOnly(c.random)
        /\ Validate(c) # "" => c.timestamp \in {None, IntNs(TickNs)}
        /\ c.timestamp \in {IntNs(Pow2(TsBits) * NS_IN_MS), OtherType} =>
             PresenceOnly(c.counter) /\ PresenceOnly(c.random)
        /\ ~IsNone(c.counter) =>
             /\ c.guard_bits = 0 /\ c.counter_step = 1
             /\ Val(c.counter) <= Pow2(Max(c.counter_bits, 0))
        /\ ~IsNone(c.random) => Val(c.random) <= Pow2(Max(rb, 0))
        /\ ~IsNone(c.timestamp) => c.counter_step = 1
        /\ (c.monotonic_random \/ c.counter_bits = 0) => c.recommended

AllArguments ==
    {c \in [timestamp : TimestampInputs, fraction_bits : FractionInputs,
            counter : ValueInputs, guard_bits : GuardInputs,
            counter_bits : CounterBitsInputs,
            counter_step : StepInputs, recommended : BOOLEAN,
            monotonic_random : BOOLEAN, random : ValueInputs] : Canonical(c)}
Configs == {c : c \in AllArguments}

FieldInputs ==
    ((-1) .. Pow2(TsBits)) \X ((-1) .. Pow2(RandABits))
        \X ((-1) .. Pow2(RandBBits))

(* ------------------------------- state -------------------------------- *)
\* _counters  the module's store
\* clock      what time_ns() returns
\* last       the last call made and what it returned
\* hist       per (fraction, counter) width: the last successful generation
\*            that used the store
\* th         the calls in progress of the concurrent callers
VARIABLES _counters, clock, last, hist, th

vars == <<_counters, clock, last, hist, th>>

Key(cfg) == <<cfg.fraction_bits, cfg.counter_bits>>
StateUsing(cfg) == IsNone(cfg.timestamp)
\* a call that pins nothing and steps the counter forward
Plain(cfg) ==
    /\ IsNone(cfg.timestamp) /\ IsNone(cfg.counter) /\ IsNone(cfg.random)
    /\ cfg.counter_step >= 1

NoCall ==
    [op |-> "none", cfg |-> DefaultCfg, fields |-> <<0, 0, 0>>, err |-> "",
     int |-> 0, counter |-> 0, random |-> 0, tsf |-> 0, seen |-> None,
     prev |-> None, time_ns |-> 0, before |-> EmptyDict, failed |-> None]

Idle == [t \in {} |-> 0]

Init ==
    /\ _counters = EmptyDict
    /\ clock = 0
    /\ last = NoCall
    /\ hist = EmptyDict
    /\ th = Idle

HistAfter(cfg, o) ==
    IF ~StateUsing(cfg) THEN hist
    ELSE IF o.err = ""
    THEN DictSet(hist, Key(cfg),
                 [tsf |-> o.tsf, counter |-> o.counter, random |-> o.random,
                  int |-> o.int])
    ELSE hist

\* With track, hist also keeps, per configuration that pins nothing, the tick
\* of its last CounterOverflow or MissingCounterGuard, until the next call on
\* its width pair: of another configuration, or of this one on a later tick.
FailKey(cfg) ==
    <<cfg.fraction_bits, cfg.counter_bits,
      <<cfg.counter_step, cfg.guard_bits, cfg.recommended,
        cfg.monotonic_random>>>>
Exhausted(o) == o.err \in {"CounterOverflow", "MissingCounterGuard"}
FailAfter(cfg, o, h) ==
    LET others == {k \in DOMAIN h :
                     /\ Len(k) = 3 /\ k[1] = cfg.fraction_bits
                     /\ k[2] = cfg.counter_bits /\ k # FailKey(cfg)}
        h1 == [k \in (DOMAIN h) \ others |-> h[k]]
    IN  IF ~Plain(cfg) THEN h1
        ELSE IF Exhausted(o) /\ FailKey(cfg) \notin DOMAIN hist
        THEN DictSet(h1, FailKey(cfg), [tick |-> o.tsf])
        ELSE IF FailKey(cfg) \in DOMAIN hist /\ hist[FailKey(cfg)].tick < o.tsf
        THEN [k \in (DOMAIN h1) \ {FailKey(cfg)} |-> h1[k]]
        ELSE h1

\* uuid7(**cfg) with cfg among cfgs, run from call to return; the store is
\* kept to nkeys (fraction, counter) width pairs
GenerateTracked(cfgs, nkeys, track) ==
    /\ last.op = "none"
    /\ \E cfg \in cfgs :
      \E o \in Generate(_counters, clock, cfg) :
        /\ Cardinality(StoreKeys(o.store)) <= nkeys
        /\ o.counter >= -MaxDebt
        /\ _counters' = o.store
        /\ hist' = IF track THEN FailAfter(cfg, o, HistAfter(cfg, o))
                   ELSE HistAfter(cfg, o)
        /\ last' = [op |-> "Generate", cfg |-> cfg, fields |-> <<0, 0, 0>>,
                    err |-> o.err, int |-> o.int, counter |-> o.counter,
                    random |-> o.random, tsf |-> o.tsf, seen |-> o.seen,
                    prev |-> IF Key(cfg) \in DOMAIN hist
                             THEN Some(hist[Key(cfg)]) ELSE None,
                    time_ns |-> clock, before |-> _counters,
                    failed |-> IF track /\ FailKey(cfg) \in DOMAIN hist
                               THEN Some(hist[FailKey(cfg)]) ELSE None]
        /\ UNCHANGED <<clock, th>>

GenerateFrom(cfgs, nkeys) == GenerateTracked(cfgs, nkeys, FALSE)

\* any call, the store following one width pair
GenerateCall == GenerateFrom(Configs, 1)

\* uuid7(fields=f)
FromFieldsCall ==
    /\ last.op = "none"
    /\ \E f \in FieldInputs :
      /\ last' = [NoCall EXCEPT !.op = "FromFields", !.fields = f,
                                !.err = FromFields(f).err,
                                !.int = FromFields(f).int,
                                !.time_ns = clock,
                                !.before = _counters]
      /\ UNCHANGED <<_counters, clock, hist, th>>

\* the caller takes the result of the call
Return ==
    /\ last.op # "none"
    /\ last' = NoCall
    /\ UNCHANGED <<_counters, clock, hist, th>>

\* the clock advances
Tick ==
    /\ last.op = "none"
    /\ clock + TickNs <= MaxClock * TickNs
    /\ clock' = clock + TickNs
    /\ UNCHANGED <<_counters, last, hist, th>>

\* the system clock is set back
ClockBack ==
    /\ last.op = "none"
    /\ clock >= TickNs
    /\ clock' = clock - TickNs
    /\ UNCHANGED <<_counters, last, hist, th>>

Next == GenerateCall \/ FromFieldsCall \/ Return \/ Tick \/ ClockBack

Spec == Init /\ [][Next]_vars

(* Calls that pin nothing, with a clock that never goes back; the store may
   hold two width pairs. *)
PlainConfigs == {c \in Configs : Plain(c)}
PlainCall == GenerateFrom(PlainConfigs, 2)
NextPlain == PlainCall \/ Return \/ Tick
SpecPlain == Init /\ [][NextPlain]_vars

(* Accepted calls that pin nothing, on up to two width pairs, with a clock
   that never goes back. *)
AcceptedPlain == {c \in PlainConfigs : Validate(c) = ""}
PairConfigs == {c : c \in AcceptedPlain}
PairCall == GenerateTracked(PairConfigs, 2, TRUE)
NextPair == PairCall \/ Return \/ Tick
SpecPair == Init /\ [][NextPair]_vars

(* Accepted calls on counter width 0 that use the store, under either method
   and with any step, with a clock that never goes back; the store follows
   one fraction width.  hist also keeps,
   per fraction width, the tick of the last success of a call under Method 1
   with a step >= 1, and how many such calls have succeeded on that tick
   (counted up to 2). *)
Stepping(cfg) ==
    /\ StateUsing(cfg) /\ cfg.counter_bits = 0 /\ ~cfg.monotonic_random
    /\ IsNone(cfg.counter) /\ cfg.counter_step >= 1
OnceKey(cfg) == <<cfg.fraction_bits>>
OnceAfter(cfg, o, h) ==
    IF ~(Stepping(cfg) /\ o.err = "") THEN h
    ELSE IF OnceKey(cfg) \in DOMAIN hist /\ hist[OnceKey(cfg)].tick = o.tsf
    THEN DictSet(h, OnceKey(cfg), [tick |-> o.tsf, count |-> 2])
    ELSE DictSet(h, OnceKey(cfg), [tick |-> o.tsf, count |-> 1])
ZeroWidthConfigs ==
    {c \in Configs :
       StateUsing(c) /\ c.counter_bits = 0 /\ Validate(c) = ""}
ZeroWidthCall ==
    /\ last.op = "none"
    /\ \E cfg \in ZeroWidthConfigs :
      \E o \in Generate(_counters, clock, cfg) :
        /\ Cardinality(StoreKeys(o.store)) <= 1
        /\ o.counter >= -MaxDebt
        /\ _counters' = o.store
        /\ hist' = OnceAfter(cfg, o, HistAfter(cfg, o))
        /\ last' = [op |-> "Generate", cfg |-> cfg, fields |-> <<0, 0, 0>>,
                    err |-> o.err, int |-> o.int, counter |-> o.counter,
                    random |-> o.random, tsf |-> o.tsf, seen |-> o.seen,
                    prev |-> IF Key(cfg) \in DOMAIN hist
                             THEN Some(hist[Key(cfg)]) ELSE None,
                    time_ns |-> clock, before |-> _counters,
                    failed |-> None]
        /\ UNCHANGED <<clock, th>>
NextZeroWidth == ZeroWidthCall \/ Return \/ Tick
SpecZeroWidth == Init /\ [][NextZeroWidth]_vars

(* ------------------------- concurrent callers ------------------------- *)
\* Two threads run uuid7(counter_num_bits=...) under Method 1 with nothing
\* pinned; a thread's step is one
\* statement of _calc_counter_and_random that reads or writes _counters.
\* own is None while the thread's `counters` is the dict held by _counters,
\* and Some(d) while it is a dict of its own (the default of line 55, or a
\* dict another thread has since replaced in _counters).
Threads == {1, 2}
ThreadConfigs ==
    {c \in PlainConfigs : Validate(c) = "" /\ c.fraction_bits = 0
                           /\ c.counter_bits = 1 /\ c.recommended
                           /\ ~c.monotonic_random}
AtRest(pc) ==
    [pc |-> pc, cfg |-> DefaultCfg, tsf |-> 0, seen |-> None, own |-> None,
     res |-> Ret(0, 0), err |-> "", int |-> 0]
InitThreads ==
    /\ _counters = EmptyDict
    /\ clock = 0
    /\ last = NoCall
    /\ hist = EmptyDict
    /\ th = [t \in Threads |-> AtRest("idle")]

Fb(t) == th[t].cfg.fraction_bits
Cb(t) == th[t].cfg.counter_bits
Rb(t) == PayloadBits - Fb(t) - Cb(t)
Step(t, r) == th' = [th EXCEPT ![t] = r]

\* lines 125-186: validation and the timestamp
T_Call(t) ==
    /\ th[t].pc = "idle"
    /\ \E cfg \in ThreadConfigs :
         LET norm == _normalize_timestamp(cfg.timestamp, clock)
         IN  Step(t, [AtRest("get") EXCEPT
                        !.cfg = cfg,
                        !.tsf = Shr(norm.value,
                                    MaxFractionBits - cfg.fraction_bits)])
    /\ UNCHANGED <<_counters, clock, last, hist>>

\* lines 54-60
T_Get(t) ==
    /\ th[t].pc = "get"
    /\ IF ~(StoreGet(_counters, Fb(t))[1] <= th[t].tsf)
       THEN Step(t, [th[t] EXCEPT !.pc = "done",
                                  !.err = "MonotonicityViolation"])
       ELSE Step(t, [th[t] EXCEPT
                       !.pc = "lookup",
                       !.seen = Some(StoreGet(_counters, Fb(t))[1]),
                       !.own = IF Fb(t) \in DOMAIN _counters THEN None
                               ELSE Some(EmptyDict)])
    /\ UNCHANGED <<_counters, clock, last, hist>>

\* the thread's `counters`
Counters(t) ==
    IF IsNone(th[t].own) THEN _counters[Fb(t)][2] ELSE Val(th[t].own)

\* lines 64-70; seen held last_timestamp until here
T_Lookup(t) ==
    /\ th[t].pc = "lookup"
    /\ Step(t, [th[t] EXCEPT
                  !.pc = "calc",
                  !.seen = IF Val(th[t].seen) < th[t].tsf
                              \/ Cb(t) \notin DOMAIN Counters(t)
                           THEN None ELSE Some(Counters(t)[Cb(t)])])
    /\ UNCHANGED <<_counters, clock, last, hist>>

\* lines 73-83
T_Calc(t) ==
    /\ th[t].pc = "calc"
    /\ LET cfg == th[t].cfg
           last_counter == IF IsNone(th[t].seen) THEN None
                           ELSE Some(Val(th[t].seen)[1])
           last_random == IF IsNone(th[t].seen) THEN None
                          ELSE Some(Val(th[t].seen)[2])
           rs == IF cfg.monotonic_random
                 THEN _counter_method2(Cb(t), cfg.counter, cfg.guard_bits,
                                       cfg.counter_step, cfg.random, Rb(t),
                                       last_counter, last_random)
                 ELSE _counter_method1(Cb(t), cfg.counter, cfg.guard_bits,
                                       cfg.counter_step, cfg.random, Rb(t),
                                       last_counter)
       IN  \E r \in rs :
             Step(t, IF r.err # ""
                     THEN [th[t] EXCEPT !.pc = "done", !.err = r.err]
                     ELSE [th[t] EXCEPT !.pc = "w86", !.res = r])
    /\ UNCHANGED <<_counters, clock, last, hist>>

\* line 86: counters[counter_num_bits] = (counter, random)
T_SetEntry(t) ==
    /\ th[t].pc = "w86"
    /\ LET d == DictSet(Counters(t), Cb(t),
                        <<th[t].res.counter, th[t].res.random>>)
       IN  IF IsNone(th[t].own)
           THEN /\ _counters' = DictSet(_counters, Fb(t),
                                        <<_counters[Fb(t)][1], d>>)
                /\ Step(t, [th[t] EXCEPT !.pc = "w88"])
           ELSE /\ Step(t, [th[t] EXCEPT !.pc = "w88", !.own = Some(d)])
                /\ UNCHANGED _counters
    /\ UNCHANGED <<clock, last, hist>>

\* lines 88-90: _counters[fraction] = (timestamp, counters).  A thread whose
\* `counters` is the dict this assignment takes out of _counters keeps it.
T_SetStore(t) ==
    /\ th[t].pc = "w88"
    /\ _counters' = DictSet(_counters, Fb(t), <<th[t].tsf, Counters(t)>>)
    /\ th' = [u \in Threads |->
                IF u = t THEN [th[t] EXCEPT !.pc = "compose", !.own = None]
                ELSE IF /\ ~IsNone(th[t].own)
                        /\ th[u].pc \in {"lookup", "calc", "w86", "w88"}
                        /\ IsNone(th[u].own) /\ Fb(u) = Fb(t)
                THEN [th[u] EXCEPT !.own = Some(_counters[Fb(t)][2])]
                ELSE th[u]]
    /\ UNCHANGED <<clock, last, hist>>

\* lines 208-211 and 432-434
T_Compose(t) ==
    /\ th[t].pc = "compose"
    /\ LET o == UuidInit(Outcome("", _compose_data(th[t].tsf, Fb(t),
                                                   th[t].res.counter, Rb(t),
                                                   th[t].res.random),
                                 th[t].res.counter, th[t].res.random,
                                 _counters, th[t].tsf, th[t].seen))
       IN  Step(t, [th[t] EXCEPT !.pc = "done", !.err = o.err,
                                 !.int = o.int])
    /\ UNCHANGED <<_counters, clock, last, hist>>

\* the caller takes the result
T_Return(t) ==
    /\ th[t].pc = "done"
    /\ Step(t, AtRest("idle"))
    /\ UNCHANGED <<_counters, clock, last, hist>>

NextThreads ==
    \/ \E t \in Threads :
         \/ T_Call(t) \/ T_Get(t) \/ T_Lookup(t) \/ T_Calc(t)
         \/ T_SetEntry(t) \/ T_SetStore(t) \/ T_Compose(t) \/ T_Return(t)
    \/ Tick
SpecThreads == InitThreads /\ [][NextThreads]_vars

(* ------------------------ reading the last call ----------------------- *)
Generated == last.op = "Generate" /\ last.err = ""
Failed == last.op = "Generate" /\ last.err # ""
LastRandomBits ==
    PayloadBits - last.cfg.fraction_bits - last.cfg.counter_bits
\* the tick of the last call, from the clock it read
LastTick ==
    Shr(_normalize_timestamp(None, last.time_ns).value,
        MaxFractionBits - last.cfg.fraction_bits)
HasPrev == ~IsNone(last.prev)
Prev == Val(last.prev)
LexLess(a, b) == a[1] < b[1] \/ (a[1] = b[1] /\ a[2] < b[2])
LexLeq(a, b) == a = b \/ LexLess(a, b)

(* C1: over calls that pin nothing (no explicit timestamp, counter_step >= 1,
   either method) on one (fraction, counter) width pair, each successful call
   returns a 128-bit value strictly greater than the previous successful one,
   and on the same tick its (counter, random) pair is lexicographically
   strictly greater. *)
C1_PlainStrictlyIncreasing ==
    (Generated /\ HasPrev) =>
        /\ Prev.int < last.int
        /\ Prev.tsf = last.tsf =>
             LexLess(<<Prev.counter, Prev.random>>,
                     <<last.counter, last.random>>)

\* a Method 2 rollover on the tick of the previous identifier
C1_Witness ==
    /\ Generated /\ HasPrev /\ last.cfg.monotonic_random
    /\ Prev.tsf = last.tsf
    /\ Prev.counter < last.counter /\ last.random <= Prev.random

(* C2: over successful calls without an explicit timestamp on one width pair
   (any pinned values, any mix of methods) the (timestamp_with_fraction,
   counter) pairs never decrease lexicographically. *)
C2_PairsNonDecreasing ==
    (Generated /\ StateUsing(last.cfg) /\ HasPrev) =>
        LexLeq(<<Prev.tsf, Prev.counter>>, <<last.tsf, last.counter>>)

\* a pinned counter accepted on the tick of the previous identifier
C2_Witness ==
    /\ Generated /\ StateUsing(last.cfg) /\ HasPrev
    /\ ~IsNone(last.cfg.counter) /\ Prev.tsf = last.tsf
    /\ Prev.counter < last.counter

(* C3: under Method 2, two consecutive successful store-using calls on the
   same tick with the same counter have strictly increasing random fields,
   whatever is pinned. *)
C3_SameCounterRandomIncreases ==
    (Generated /\ StateUsing(last.cfg) /\ last.cfg.monotonic_random
       /\ HasPrev /\ Prev.tsf = last.tsf /\ Prev.counter = last.counter)
      => Prev.random < last.random

(* C4: a call that fails leaves the store exactly as it was before the
   call. *)
C4_FailureKeepsStore == Failed => _counters = last.before

(* C5: two concurrent un-pinned Method 1 calls on the same width pair and
   tick never read the same prior entry of the store, so they never return
   the same counter. *)
Returned(t) == th[t].pc = "done" /\ th[t].err = ""
C5_NoSameCounter ==
    \A t \in Threads : \A u \in Threads \ {t} :
        (/\ Returned(t) /\ Returned(u)
         /\ ~IsNone(th[t].seen) /\ ~IsNone(th[u].seen)
         /\ ~th[t].cfg.monotonic_random /\ ~th[u].cfg.monotonic_random
         /\ Key(th[t].cfg) = Key(th[u].cfg) /\ th[t].tsf = th[u].tsf)
          => th[t].res.counter # th[u].res.counter

(* C6: under Method 1, without an explicit timestamp, pinning the counter to
   a value equal to or lower than the counter of the previous successful
   generation on the same width pair and tick fails; the error is a
   monotonicity violation whenever the Validator accepts the call. *)
C6_Premise ==
    /\ last.op = "Generate" /\ ~last.cfg.monotonic_random
    /\ StateUsing(last.cfg) /\ ~IsNone(last.cfg.counter)
    /\ HasPrev /\ Prev.tsf = LastTick
    /\ Val(last.cfg.counter) <= Prev.counter
C6_PinnedNotIncreasedFails ==
    C6_Premise =>
        /\ last.err # ""
        /\ Validate(last.cfg) = "" => last.err = "MonotonicityViolation"

\* the counter of the previous identifier, pinned again
C6_Witness ==
    /\ C6_Premise /\ Val(last.cfg.counter) = Prev.counter
    /\ last.err = "MonotonicityViolation"

(* C7 as stated: after a successful store-using generation returning
   previous_counter, a call on the same width pair pinning counter =
   previous_counter + 1 (no explicit timestamp, no pinned random, clock not
   back) succeeds with that counter. *)
C7_Premise ==
    /\ last.op = "Generate" /\ StateUsing(last.cfg)
    /\ IsNone(last.cfg.random) /\ HasPrev
    /\ last.cfg.counter = Some(Prev.counter + 1)
    /\ StoreGet(last.before, last.cfg.fraction_bits)[1] <= LastTick
C7_Result ==
    /\ last.err = "" /\ last.counter = Prev.counter + 1
    /\ ExposedCounter(last.int, LastRandomBits, last.cfg.counter_bits)
         = Prev.counter + 1
C7_NextCounterAccepted == C7_Premise => C7_Result

(* C7 amended: the same, for every such call the Validator accepts (so
   counter_bits > 0 and previous_counter + 1 < 2^counter_bits). *)
C7_NextCounterAcceptedIfValid ==
    (C7_Premise /\ Validate(last.cfg) = "") => C7_Result

\* counter + 1 pinned on the tick of the previous identifier
C7_Witness ==
    /\ C7_Premise /\ Validate(last.cfg) = "" /\ Prev.tsf = LastTick
    /\ C7_Result

(* C8: a successful call with a pinned counter returns an identifier whose
   counter field is the pinned counter. *)
C8_PinnedCounterKept ==
    (Generated /\ ~IsNone(last.cfg.counter)) =>
        ExposedCounter(last.int, LastRandomBits, last.cfg.counter_bits)
          = Val(last.cfg.counter)

(* C9: a successful call with a pinned random returns an identifier whose
   random field is the pinned random. *)
C9_PinnedRandomKept ==
    (Generated /\ ~IsNone(last.cfg.random)) =>
        ExposedRandom(last.int, LastRandomBits) = Val(last.cfg.random)

\* random = 0 pinned under Method 2 over a prior entry of the same tick
C9_Witness ==
    /\ Generated /\ last.cfg.random = Some(0) /\ last.cfg.monotonic_random
    /\ ~IsNone(last.seen) /\ last.cfg.counter_bits > 0

(* C10: the fields of every generated identifier are accepted by the
   constructor from fields, which returns the same 128-bit value. *)
C10_RoundTrip ==
    Generated =>
        /\ FromFields(fields(last.int)).err = ""
        /\ FromFields(fields(last.int)).int = last.int

\* an identifier with a fraction whose three fields are not zero
C10_Witness ==
    /\ Generated /\ last.cfg.fraction_bits > 0
    /\ unix_ts_ms(last.int) > 0 /\ rand_a(last.int) > 0
    /\ rand_b(last.int) > 0

(* C11: a Generate with an explicit timestamp, and a FromFields, leave the
   store as it was, and what the Generate can return (error or identifier) is
   the same from the store it was given as from an empty store; with counter
   and random both pinned there is one such result. *)
Results(store, time_ns, cfg) ==
    {<<o.err, o.int>> : o \in Generate(store, time_ns, cfg)}
C11_Explicit == last.op = "Generate" /\ ~StateUsing(last.cfg)
C11_StoreNotUsed ==
    /\ C11_Explicit =>
         /\ _counters = last.before
         /\ Results(last.before, last.time_ns, last.cfg)
              = Results(EmptyDict, last.time_ns, last.cfg)
         /\ <<last.err, last.int>>
              \in Results(EmptyDict, last.time_ns, last.cfg)
         /\ (~IsNone(last.cfg.counter) /\ ~IsNone(last.cfg.random)) =>
              Cardinality(Results(EmptyDict, last.time_ns, last.cfg)) = 1
    /\ last.op = "FromFields" => _counters = last.before

\* an identifier for a timestamp earlier than the one the store holds
C11_Witness ==
    /\ C11_Explicit /\ last.err = ""
    /\ ~IsNone(last.cfg.counter) /\ ~IsNone(last.cfg.random)
    /\ last.cfg.fraction_bits \in DOMAIN last.before
    /\ last.tsf < StoreGet(last.before, last.cfg.fraction_bits)[1]

(* C12: a Generate under Method 2 with an explicit timestamp and no pinned
   random fails with ConfigError and leaves the store as it was. *)
C12_Premise ==
    /\ last.op = "Generate" /\ last.cfg.monotonic_random
    /\ ~StateUsing(last.cfg) /\ IsNone(last.cfg.random)
C12_RandomRequired ==
    C12_Premise => last.err = "ConfigError" /\ _counters = last.before

\* such a call with a counter and a fraction width, over a store in use
C12_Witness ==
    /\ C12_Premise /\ last.err = "ConfigError"
    /\ last.cfg.counter_bits > 0 /\ last.cfg.fraction_bits > 0
    /\ last.before # EmptyDict

(* C13: in every Generate that returns an identifier the widths add up to
   the payload (0 <= counter_bits <= payload - fraction_bits, random_bits >=
   0), counter and random fit their widths, they are the values the
   identifier decodes to, and they are the entry written to the store. *)
C13_FieldsFitWidths ==
    Generated =>
        LET fb == last.cfg.fraction_bits
            cb == last.cfg.counter_bits
            rb == LastRandomBits
        IN  /\ 0 <= fb /\ fb <= MaxFractionBits
            /\ 0 <= cb /\ cb <= PayloadBits - fb
            /\ rb >= 0 /\ fb + cb + rb = PayloadBits
            /\ 0 <= last.counter /\ last.counter < Pow2(cb)
            /\ 0 <= last.random /\ last.random < Pow2(rb)
            /\ ExposedCounter(last.int, rb, cb) = last.counter
            /\ ExposedRandom(last.int, rb) = last.random
            /\ StateUsing(last.cfg) =>
                 /\ fb \in DOMAIN _counters
                 /\ cb \in DOMAIN _counters[fb][2]
                 /\ _counters[fb][2][cb] = <<last.counter, last.random>>

\* a Method 2 rollover whose random was truncated to a value not above the
\* previous one
C13_Witness ==
    /\ Generated /\ last.cfg.monotonic_random
    /\ IsNone(last.cfg.counter) /\ IsNone(last.cfg.random)
    /\ ~IsNone(last.seen) /\ LastRandomBits > 0
    /\ last.counter > Val(last.seen)[1] /\ last.random <= Val(last.seen)[2]

(* C14: every identifier returned by Generate is unix_ts_ms | 0111 | rand_a |
   10 | rand_b, the three fields being the split at the fixed boundaries of
   D = (timestamp_with_fraction << (payload - fraction_bits)) | (counter <<
   random_bits) | random; unix_ts_ms is the whole-millisecond part of the
   normalized timestamp, the version is 7 and the variant 10. *)
C14_Layout ==
    Generated =>
        LET fb == last.cfg.fraction_bits
            D == last.tsf * Pow2(PayloadBits - fb)
                   + last.counter * Pow2(LastRandomBits) + last.random
            u == D \div Pow2(PayloadBits)
            a == (D \div Pow2(RandBBits)) % Pow2(RandABits)
            b == D % Pow2(RandBBits)
            norm == _normalize_timestamp(last.cfg.timestamp, last.time_ns)
        IN  /\ last.int = u * Pow2(VersionBits + RandABits + VariantBits
                                     + RandBBits)
                          + 7 * Pow2(RandABits + VariantBits + RandBBits)
                          + a * Pow2(VariantBits + RandBBits)
                          + 2 * Pow2(RandBBits) + b
            /\ fields(last.int) = <<u, a, b>>
            /\ unix_ts_ms(last.int) = norm.value \div Pow2(MaxFractionBits)
            /\ unix_ts_ms(last.int) = last.tsf \div Pow2(fb)
            /\ version(last.int) = 7 /\ variant(last.int) = 2

\* a timestamp with a fraction bit set and a whole millisecond, over a
\* counter or random that is not zero
C14_Witness ==
    /\ Generated /\ last.cfg.fraction_bits > 0
    /\ last.tsf % 2 = 1 /\ unix_ts_ms(last.int) > 0
    /\ last.counter + last.random > 0

(* C15: under Method 2 with nothing pinned and a prior (last_counter,
   last_random) on the tick, the strategy returns, for candidate = last_random
   + 1 + fresh bits: (last_counter, candidate) if candidate < 2^random_bits;
   else with counter_bits > 0 (last_counter + counter_step, candidate -
   2^random_bits), or CounterOverflow when last_counter + counter_step >=
   2^counter_bits; else MissingCounterGuard.  A call that returns an
   identifier has a counter not below last_counter, and with random_bits = 0
   no result keeps the counter. *)
C15_Premise ==
    /\ last.op = "Generate" /\ StateUsing(last.cfg)
    /\ last.cfg.monotonic_random
    /\ IsNone(last.cfg.counter) /\ IsNone(last.cfg.random)
    /\ Validate(last.cfg) = "" /\ ~IsNone(last.seen)
C15_Expected(cb, step, rb, lc, lr) ==
    {LET candidate == lr + 1 + fresh
     IN  IF candidate < Pow2(rb) THEN Ret(lc, candidate)
         ELSE IF cb > 0
         THEN IF lc + step >= Pow2(cb) THEN Raise("CounterOverflow")
              ELSE Ret(lc + step, candidate - Pow2(rb))
         ELSE Raise("MissingCounterGuard") : fresh \in 0 .. (Pow2(rb) - 1)}
C15_Strategy ==
    {[err |-> o.err, counter |-> o.counter, random |-> o.random] :
       o \in _calc_counter_and_random(last.before, last.cfg, LastTick,
                                      LastRandomBits)}
C16_PriorIsOfThisTick ==
    (last.op = "Generate" /\ StateUsing(last.cfg) /\ ~IsNone(last.seen)) =>
        /\ HasPrev /\ Prev.tsf = LastTick
        /\ Val(last.seen) = <<Prev.counter, Prev.random>>

(* C17: after a CounterOverflow or MissingCounterGuard of a configuration
   that pins nothing at tick T, and any calls on other width pairs since, the
   first call of that configuration on a tick later than T succeeds. *)
C17_FirstLaterCall ==
    /\ last.op = "Generate" /\ Plain(last.cfg) /\ ~IsNone(last.failed)
    /\ Val(last.failed).tick < LastTick
C17_ExhaustionEndsWithTick == C17_FirstLaterCall => last.err = ""

(* C18: for each fraction_bits the last timestamp held in the store never
   decreases; a store-using Generate whose timestamp_with_fraction is below
   the stored one fails and leaves the store as it was, with a monotonicity
   violation whenever the Validator accepts the call, and one whose
   timestamp is equal or greater is not rejected by this comparison. *)
C18_Stored == StoreGet(last.before, last.cfg.fraction_bits)[1]
C18_Call ==
    /\ last.op = "Generate" /\ StateUsing(last.cfg)
    /\ CheckFraction(last.cfg) = ""
C18_Check ==
    C18_Call =>
        /\ LastTick < C18_Stored =>
             /\ last.err # "" /\ _counters = last.before
             /\ Validate(last.cfg) = "" =>
                  last.err = "MonotonicityViolation"
        /\ LastTick >= C18_Stored =>
             ~(last.err = "MonotonicityViolation" /\ IsNone(last.seen))
C18_Step ==
    \A fb \in DOMAIN _counters :
        /\ fb \in DOMAIN _counters'
        /\ _counters[fb][1] <= _counters'[fb][1]
C18_TimestampNeverDecreases == [](C18_Check) /\ [][C18_Step]_vars

\* a Method 2 call with a pinned counter after the clock was set back
C18_Witness ==
    /\ C18_Call /\ Validate(last.cfg) = "" /\ LastTick < C18_Stored
    /\ last.cfg.monotonic_random /\ ~IsNone(last.cfg.counter)
    /\ last.err = "MonotonicityViolation"

(* C19: under Method 2 with the random pinned and a prior (last_counter,
   last_random) on the tick, a call the Validator accepts succeeds exactly
   when (c, random) is lexicographically above (last_counter, last_random),
   c being the pinned counter, or last_counter when none is pinned; on
   success the identifier carries (c, random), and a failure is a
   monotonicity violation. *)
C19_Premise ==
    /\ last.op = "Generate" /\ StateUsing(last.cfg)
    /\ last.cfg.monotonic_random /\ ~IsNone(last.cfg.random)
    /\ Validate(last.cfg) = "" /\ ~IsNone(last.seen)
C19_PinnedRandomOrder ==
    C19_Premise =>
        LET lc == Val(last.seen)[1]
            lr == Val(last.seen)[2]
            c == IF IsNone(last.cfg.counter) THEN lc
                 ELSE Val(last.cfg.counter)
            random == Val(last.cfg.random)
        IN  /\ last.err = "" <=> LexLess(<<lc, lr>>, <<c, random>>)
            /\ last.err = "" =>
                 /\ ExposedCounter(last.int, LastRandomBits,
                                   last.cfg.counter_bits) = c
                 /\ ExposedRandom(last.int, LastRandomBits) = random
            /\ last.err # "" => last.err = "MonotonicityViolation"

(* C20: a configuration with counter_bits > 0 that is not (Method 2 without a
   pinned random) and has use_recommended set is rejected with ConfigError
   when counter_bits is outside the recommended range, and without
   use_recommended when counter_bits is outside (0, payload - fraction_bits];
   this includes Method 2 with a pinned random. *)
C20_Premise ==
    /\ last.op = "Generate" /\ CheckFraction(last.cfg) = ""
    /\ ~(last.cfg.monotonic_random /\ IsNone(last.cfg.random))
    /\ last.cfg.counter_bits > 0
C20_WidthRuleApplied ==
    C20_Premise =>
        LET cb == last.cfg.counter_bits
        IN  /\ (last.cfg.recommended /\ ~(RecMinBits <= cb /\ cb <= RecMaxBits))
                 => last.err = "ConfigError"
            /\ (~last.cfg.recommended
                  /\ ~(cb <= PayloadBits - last.cfg.fraction_bits))
                 => last.err = "ConfigError"

(* C21: with an unset counter and counter_bits > 0 the counter_step range is
   checked only for calls without an explicit timestamp: a Generate with an
   explicit timestamp, an unset counter, counter_bits > 0 and a valid guard
   seed width passes validation (it is not rejected because the counter is
   missing), and its counter is seeded by InitCounter. *)
C21_Premise ==
    /\ last.op = "Generate" /\ ~StateUsing(last.cfg)
    /\ IsNone(last.cfg.counter) /\ last.cfg.counter_bits > 0
    /\ 0 <= last.cfg.guard_bits
    /\ last.cfg.guard_bits <= last.cfg.counter_bits
C21_OtherChecksPass ==
    /\ CheckFraction(last.cfg) = "" /\ CheckWidths(last.cfg) = ""
    /\ CheckRandom(last.cfg) = ""
C21_Seeded ==
    last.counter \in
        {r.counter : r \in _init_counter(last.cfg.counter_bits,
                                         last.cfg.guard_bits)}
C21_ExplicitUnsetCounterAccepted ==
    C21_Premise /\ C21_OtherChecksPass =>
        /\ last.err # "ConfigError"
        /\ last.err = "" => C21_Seeded

(* C21, as the code has it: with an unset counter and counter_bits > 0 the
   counter_step range is checked for calls without an explicit timestamp, and
   a Generate with an explicit timestamp, an unset counter, counter_bits > 0
   and a valid guard seed width is rejected with ConfigError, the store
   untouched (a counter is required when a timestamp is provided); only with
   counter_bits = 0 does an explicit timestamp with an unset counter pass
   validation, its counter seeded by InitCounter. *)
C21_ExplicitNeedsCounter ==
    /\ C21_Premise =>
         last.err = "ConfigError" /\ _counters = last.before
    /\ ( /\ last.op = "Generate" /\ StateUsing(last.cfg)
         /\ IsNone(last.cfg.counter) /\ last.cfg.counter_bits > 0
         /\ ~( /\ 0 < last.cfg.counter_step
               /\ last.cfg.counter_step < Pow2(last.cfg.counter_bits)) )
         => last.err = "ConfigError"
    /\ ( /\ last.op = "Generate" /\ ~StateUsing(last.cfg)
         /\ IsNone(last.cfg.counter) /\ last.cfg.counter_bits = 0
         /\ last.cfg.guard_bits = 0 /\ C21_OtherChecksPass )
         => /\ last.err # "ConfigError"
            /\ last.err = "" => C21_Seeded /\ last.counter = 0
C21_Witness ==
    /\ C21_Premise /\ C21_OtherChecksPass
    /\ last.err = "ConfigError"
    /\ last.cfg.guard_bits = 1 /\ _counters # EmptyDict

(* C22: a configuration with counter_step < 1 and no pinned counter is never
   used to advance a counter: for every counter_bits, 0 included, a
   state-using Generate with counter_step <= 0 either is rejected before the
   store is touched, or returns and stores a counter strictly greater than
   the prior counter of its width pair on the same tick. *)
C22_Premise ==
    /\ last.op = "Generate" /\ StateUsing(last.cfg)
    /\ IsNone(last.cfg.counter) /\ last.cfg.counter_step <= 0
C22_Stored ==
    StoreGet(_counters, last.cfg.fraction_bits)[2][last.cfg.counter_bits][1]
C22_StepBelowOneNeverUsed ==
    C22_Premise =>
        \/ last.err # "" /\ _counters = last.before
        \/ /\ last.err = ""
           /\ ~IsNone(last.seen) =>
                /\ last.counter > Val(last.seen)[1]
                /\ C22_Stored > Val(last.seen)[1]

(* C23: under Method 1 with no pinned counter, when the store supplies no
   prior counter for (fraction_bits, counter_bits), the counter of the
   result has its counter_guard_seed_bits leading bits zero:
   0 <= counter < 2^(counter_bits - counter_guard_seed_bits). *)
C23_Premise ==
    /\ Generated /\ StateUsing(last.cfg)
    /\ ~last.cfg.monotonic_random /\ IsNone(last.cfg.counter)
    /\ IsNone(last.seen)
C23_SeedLeavesGuardBitsZero ==
    C23_Premise =>
        LET c == ExposedCounter(last.int, LastRandomBits,
                                last.cfg.counter_bits)
            free == last.cfg.counter_bits - last.cfg.guard_bits
        IN  /\ last.counter = c
            /\ 0 <= c /\ c < Pow2(free)
            /\ StoreGet(_counters, last.cfg.fraction_bits)[2]
                   [last.cfg.counter_bits][1] = c
\* a seed with one guard bit and one random bit, the random bit set
C23_Witness ==
    /\ C23_Premise
    /\ last.cfg.counter_bits = 2 /\ last.cfg.guard_bits = 1
    /\ last.counter = 1

(* C24: with counter_bits = 0 under Method 1, no pinned counter and
   counter_step >= 1, at most one Generate succeeds per tick for a given
   fraction_bits: once one such call has succeeded on a tick, every further
   such call on the same tick fails with CounterOverflow and leaves the store
   unchanged, until the tick advances. *)
C24_Succeeded ==
    /\ OnceKey(last.cfg) \in DOMAIN hist
    /\ hist[OnceKey(last.cfg)].tick = LastTick
C24_AtMostOnePerTick ==
    /\ \A k \in DOMAIN hist : Len(k) = 1 => hist[k].count <= 1
    /\ ( /\ last.op = "Generate" /\ Stepping(last.cfg)
         /\ C24_Succeeded /\ last.err # "" )
         => last.err = "CounterOverflow" /\ _counters = last.before
=============================================================================
